---- MODULE Spec2Model ----
(***************************************************************************)
(* Pattern matching engine of mwetoolkit (libs/base/patternlib.py).        *)
(*                                                                         *)
(* A pattern AST (WordPattern / SequencePattern / EitherPattern) is        *)
(* lowered by PatternMatcher into one regular expression over the          *)
(* canonical encoding of a sentence; PatternMatcher.matches is a generator *)
(* that scans the encoded sentence and yields (ngram, wordnums) pairs.     *)
(*                                                                         *)
(* The regular expression is kept as a tree (the structure of pat_pieces)  *)
(* and Python's backtracking `re` engine is modelled by ReMatch, which     *)
(* lists the successful paths in the engine's priority order.  Offsets are *)
(* character offsets into wordstring, 0-based as in the code; token        *)
(* indexes (wordnums) are 0-based as in the code.                          *)
(***************************************************************************)
EXTENDS Integers, Sequences, FiniteSets, TLC

VARIABLES pat, matcher, words, match_distance, overlapping, id_order,
          anchor_begin, anchor_end, pc, numid_order, i, matches_here,
          pending, increment, yielded, warned, last_call, occur

vars == <<pat, matcher, words, match_distance, overlapping, id_order,
          anchor_begin, anchor_end, pc, numid_order, i, matches_here,
          pending, increment, yielded, warned, last_call, occur>>

\* the locals and arguments of the generator PatternMatcher.matches
genvars == <<words, match_distance, overlapping, id_order, anchor_begin,
             anchor_end, pc, numid_order, i, matches_here, pending,
             increment, yielded>>

\* ------------------------------------------------------------------ bounds
MaxLen == 3

\* a quantifier without upper bound: more iterations than a sentence has tokens
Unbounded == MaxLen + 2

\* --------------------------------------------------------------- constants
None == "None"
seplen == 1
Unmatched == <<-1, -1>>
\* a failed dictionary lookup, the result None of re.match, the field
\* _matcher before the first call
KeyError == -1
NoMatch == <<>>
NoMatcher == [compiled_pattern |-> None]

Truthy(s) == s # None /\ s # ""

\* ------------------------------------------------------------------ tokens
WORD_ATTRIBUTES == <<"surface", "lemma", "pos", "syn">>

\* The field syn of a token is the text "type:head;type:head;...", head a
\* 1-based token number.
Word(lemma) == [surface |-> lemma, lemma |-> lemma, pos |-> "N", syn |-> ""]

WordSyn(lemma, syn) == [Word(lemma) EXCEPT !.syn = syn]

Lemmas == {"a", "bb"}

RECURSIVE SeqsUpTo(_, _)
SeqsUpTo(S, n) ==
  IF n = 0 THEN {<<>>}
  ELSE LET shorter == SeqsUpTo(S, n - 1)
       IN  shorter \cup {Append(s, x) : s \in {t \in shorter : Len(t) = n - 1}, x \in S}

Sentences == SeqsUpTo({Word(l) : l \in Lemmas}, MaxLen)

\* -------------------------------------------------------- sentence encoder
NumDigits(n) == IF n < 10 THEN 1 ELSE IF n < 100 THEN 2 ELSE 3

\* mutant: syn goes into wordstring as it is
EncodedAttrBare(word, attr) == word[attr]

\* attrs[attr] of the sentence encoder: the attribute of the token, syn
\* rendered as ";syn;"
EncodedAttr(word, attr) == IF attr = "syn" THEN ";" \o word.syn \o ";" ELSE word[attr]

\* len(WORD_FORMAT.format(**attrs)): wordnum and the four attributes joined
\* by ATTRIBUTE_SEPARATOR, syn rendered as ";syn;"
WordstringelemLen(word, wordnum) ==
  NumDigits(wordnum) + 1 + Len(word.surface) + 1 + Len(word.lemma) + 1
    + Len(word.pos) + 1 + Len(EncodedAttr(word, "syn"))

RECURSIVE Positions(_)
Positions(ws) ==
  IF ws = <<>> THEN <<>>
  ELSE LET front == SubSeq(ws, 1, Len(ws) - 1)
           prev  == Positions(front)
       IN  IF front = <<>> THEN <<seplen>>
           ELSE Append(prev, prev[Len(prev)]
                  + WordstringelemLen(front[Len(front)], Len(front)) + seplen)

WordstringLen(ws) ==
  IF ws = <<>> THEN 2 * seplen
  ELSE Positions(ws)[Len(ws)] + WordstringelemLen(ws[Len(ws)], Len(ws)) + seplen

\* mutant: bisect.bisect_right
BisectRight(positions, x) == Cardinality({k \in 1..Len(positions) : positions[k] <= x})

\* bisect.bisect_left(positions, x): number of positions strictly below x
BisectLeft(positions, x) == Cardinality({k \in 1..Len(positions) : positions[k] < x})

\* ------------------------------------------------------------- pattern AST
\* AbstractPattern.__init__ gives every node _frozen = False.  A node is a
\* record; a container holds its children by value, a child is named by its
\* path (the 1-based positions from the root).
\* the values of the properties of a word are WordProp objects
LiteralProp(value) ==
  [cls |-> "LiteralProp", value |-> value, w_strid |-> "", prop |-> ""]

BackrefProp(w_strid, prop) ==
  [cls |-> "BackrefProp", value |-> "", w_strid |-> w_strid, prop |-> prop]

WordPattern(w_strid, lemma) ==
  [type |-> "w", _frozen |-> FALSE, w_strid |-> w_strid,
   positive_props |-> IF lemma = None THEN <<>>
                      ELSE <<[name |-> "lemma", value |-> LiteralProp(lemma)]>>,
   negative_props |-> <<>>]

SequencePattern(seq_strid, repeat, ignore, subpatterns) ==
  [type |-> "seq", _frozen |-> FALSE, seq_strid |-> seq_strid, repeat |-> repeat,
   ignore |-> ignore, subpatterns |-> subpatterns]

\* ContainerPattern.__init__ keeps the list it is given as it is
EitherPattern(subpatterns) ==
  [type |-> "either", _frozen |-> FALSE, subpatterns |-> subpatterns]

\* the property subpatterns: () for a word
Subpatterns(node) == IF node.type = "w" THEN <<>> ELSE node.subpatterns

\* mutant: the flag is set on the node only, the children are not visited
freezeShallow(node) == [node EXCEPT !._frozen = TRUE]

RECURSIVE freeze(_)
freeze(node) ==
  IF node._frozen THEN node
  ELSE IF node.type = "w" THEN [node EXCEPT !._frozen = TRUE]
  ELSE [node EXCEPT !._frozen = TRUE,
                    !.subpatterns = [k \in 1..Len(node.subpatterns) |->
                                       freeze(node.subpatterns[k])]]

\* list.insert(index, x) for 0 <= index
InsertAt(s, index, x) ==
  IF index >= Len(s) THEN Append(s, x)
  ELSE SubSeq(s, 1, index) \o <<x>> \o SubSeq(s, index + 1, Len(s))

\* The mutators return the node after the call and the exception raised
\* (None when the call returns).
ContainerPattern_add_pattern(node, subpattern, index) ==
  IF node._frozen THEN [node |-> node, raised |-> "AssertionError"]
  ELSE [node |-> [node EXCEPT !.subpatterns = InsertAt(@, index, subpattern)],
        raised |-> None]

\* ctxinfo.error(message) is fatal: it raises
ctxinfo_error(message) == "ctxinfo.error"

EitherPattern_add_pattern(node, subpattern, index) ==
  IF subpattern.type # "seq"
  THEN [node |-> node, raised |-> ctxinfo_error("Bad subpattern inside either block")]
  ELSE ContainerPattern_add_pattern(node, subpattern, index)

add_pattern(node, subpattern, index) ==
  IF node.type = "either" THEN EitherPattern_add_pattern(node, subpattern, index)
  ELSE ContainerPattern_add_pattern(node, subpattern, index)

append_pattern(node, subpattern) == add_pattern(node, subpattern, Len(node.subpatterns))

\* remove_pattern(ctxinfo, subpattern): nodes compare by identity, so the
\* argument is given by where the object is in the list (0-based), KeyError
\* when it is not a child; list.remove then raises ValueError
remove_pattern(node, where) ==
  IF node._frozen THEN [node |-> node, raised |-> "AssertionError"]
  ELSE IF where = KeyError THEN [node |-> node, raised |-> "ValueError"]
  ELSE [node |-> [node EXCEPT !.subpatterns =
                    SubSeq(@, 1, where) \o SubSeq(@, where + 2, Len(@))],
        raised |-> None]

\* the setter of the property ignore of a SequencePattern:
\* self._ignore = bool(new_ignore)
set_ignore(node, new_ignore) ==
  [node |-> [node EXCEPT !.ignore = new_ignore], raised |-> None]

\* the dictionaries name -> list of values are kept as the list of the pairs
\* [name, value] in the order they were added
add_prop(node, name, value, negated) ==
  IF node._frozen THEN [node |-> node, raised |-> "AssertionError"]
  ELSE [node |-> IF negated
                 THEN [node EXCEPT !.negative_props = Append(@, [name |-> name, value |-> value])]
                 ELSE [node EXCEPT !.positive_props = Append(@, [name |-> name, value |-> value])],
        raised |-> None]

RECURSIVE Paths(_), NodeAt(_, _), ReplaceAt(_, _, _), Size(_)
Paths(node) ==
  {<<>>} \cup UNION {{<<k>> \o p : p \in Paths(Subpatterns(node)[k])} :
                       k \in 1..Len(Subpatterns(node))}

NodeAt(node, path) ==
  IF path = <<>> THEN node ELSE NodeAt(node.subpatterns[Head(path)], Tail(path))

ReplaceAt(node, path, new) ==
  IF path = <<>> THEN new
  ELSE [node EXCEPT !.subpatterns[Head(path)] = ReplaceAt(@, Tail(path), new)]

\* the number of nodes and properties of a tree
Size(node) ==
  IF node.type = "w" THEN 1 + Len(node.positive_props) + Len(node.negative_props)
  ELSE LET sub == node.subpatterns
           sizes == [k \in 1..Len(sub) |-> Size(sub[k])]
           sum[k \in 0..Len(sub)] == IF k = 0 THEN 0 ELSE sum[k - 1] + sizes[k]
       IN  1 + sum[Len(sub)]

PropsOf(props, attr) == SelectSeq(props, LAMBDA p : p.name = attr)

\* ------------------------------------------------------- pattern compiler
\* Compiler state: the fields of PatternMatcher filled by _do_parse.
\* names lists the named groups in the order their "(?P<" is emitted, so a
\* group's number (numid) is its index in names.
InitParse ==
  [names |-> <<>>, ignored2strid |-> <<>>, strid2parent |-> <<>>,
   defined_w_ids |-> <<>>, temp_id |-> 0, forepattern_ids |-> <<>>,
   refs |-> {}, warnings |-> <<>>, error |-> FALSE]

InSeq(x, s) == \E k \in 1..Len(s) : s[k] = x

_check_scope_repeat(scope_repeat, cs) ==
  IF scope_repeat # None
  THEN [cs EXCEPT !.warnings = Append(@, "Elem cannot have id or ignore under a repeat scope")]
  ELSE cs

OpenGroup(cs, strid) == [cs EXCEPT !.names = Append(@, strid)]

SetParent(cs, strid, parent_strid) ==
  [cs EXCEPT !.strid2parent =
     SelectSeq(@, LAMBDA e : e.strid # strid) \o <<[strid |-> strid, parent |-> parent_strid]>>]

IsPrefix(p, v) == Len(p) <= Len(v) /\ SubSeq(v, 1, Len(p)) = p

IsDigits(text) ==
  \A k \in 1..Len(text) :
    SubSeq(text, k, k) \in {"0", "1", "2", "3", "4", "5", "6", "7", "8", "9"}

\* the quantifiers the repeat values of the patterns start with
Quantifiers == {"*", "?", "+", "{1,2}", "{2}", "{,2}", "{1,}"}

\* what re.compile reads as the quantifier of "(?:...)" + repeat: the
\* quantifier the text starts with, "" when it starts with none
RepeatQuantifier(repeat) ==
  IF \E q \in Quantifiers : IsPrefix(q, repeat)
  THEN CHOOSE q \in Quantifiers : IsPrefix(q, repeat)
  ELSE ""

\* the rest of repeat, which re.compile reads as literal text
RepeatTail(repeat) ==
  SubSeq(repeat, Len(RepeatQuantifier(repeat)) + 1, Len(repeat))

RepeatMin(repeat) ==
  LET q == RepeatQuantifier(repeat)
  IN  CASE q = "*" -> 0
        [] q = "?" -> 0
        [] q = "+" -> 1
        [] q = "{1,2}" -> 1
        [] q = "{2}" -> 2
        [] q = "{,2}" -> 0
        [] q = "{1,}" -> 1
        [] OTHER -> 1

RepeatMax(repeat) ==
  LET q == RepeatQuantifier(repeat)
  IN  CASE q = "*" -> Unbounded
        [] q = "?" -> 1
        [] q = "+" -> Unbounded
        [] q = "{1,2}" -> 2
        [] q = "{2}" -> 2
        [] q = "{,2}" -> 2
        [] q = "{1,}" -> Unbounded
        [] OTHER -> 1

\* re.match(r"^\{[0-9]*,[0-9]*\}|\{[0-9]+\}$", repeat): the first
\* alternative is a brace range at the start of repeat, whatever follows
\* it; the second is a brace count that is all of repeat
ReMatchBraceRange(repeat) ==
  \/ \E e \in 3..Len(repeat) : \E c \in 2..(e - 1) :
       /\ SubSeq(repeat, 1, 1) = "{"
       /\ SubSeq(repeat, c, c) = ","
       /\ SubSeq(repeat, e, e) = "}"
       /\ IsDigits(SubSeq(repeat, 2, c - 1))
       /\ IsDigits(SubSeq(repeat, c + 1, e - 1))
  \/ /\ Len(repeat) >= 3
     /\ SubSeq(repeat, 1, 1) = "{" /\ SubSeq(repeat, Len(repeat), Len(repeat)) = "}"
     /\ IsDigits(SubSeq(repeat, 2, Len(repeat) - 1))

\* the test before ctxinfo.warn("Invalid repeat pattern: {repeat}")
InvalidRepeat(repeat) ==
  repeat # "*" /\ repeat # "?" /\ repeat # "+" /\ ~ReMatchBraceRange(repeat)

\* ATTRIBUTE_WILDCARD, "[^" + ATTRIBUTE_SEPARATOR + WORD_SEPARATOR + "]*"
ATTRIBUTE_WILDCARD == [re |-> "wildcard", arg |-> ""]

WidGroup(w_strid, attr) == "wid_" \o w_strid \o "_" \o attr

\* to_base_regex: re.escape(value) matches the text value and nothing
\* else; a BackrefProp is the back-reference (?P=wid_<w_strid>_<prop>)
to_base_regex(propval) ==
  CASE propval.cls = "LiteralProp" -> [re |-> "literal", arg |-> propval.value]
    [] propval.cls = "BackrefProp" ->
         [re |-> "backref", arg |-> WidGroup(propval.w_strid, propval.prop)]

\* the fragment of one attribute of a word: the first positive property is
\* the consuming regex, later ones are positive look-aheads, negative ones
\* negative look-aheads; no positive property gives ATTRIBUTE_WILDCARD
AttrRegex(w_patobj, attr) ==
  LET positive_props == PropsOf(w_patobj.positive_props, attr)
      negative_props == PropsOf(w_patobj.negative_props, attr)
  IN  [base |-> IF positive_props = <<>> THEN ATTRIBUTE_WILDCARD
                ELSE to_base_regex(positive_props[1].value),
       lookahead |-> IF positive_props = <<>> THEN <<>>
                     ELSE [k \in 1..(Len(positive_props) - 1) |->
                             to_base_regex(positive_props[k + 1].value)],
       neg_lookahead |-> [k \in 1..Len(negative_props) |->
                            to_base_regex(negative_props[k].value)]]

\* the names the back-references of a fragment refer to
BackrefsOf(rx) ==
  LET pieces == <<rx.base>> \o rx.lookahead \o rx.neg_lookahead
  IN  {pieces[k].arg : k \in {j \in 1..Len(pieces) : pieces[j].re = "backref"}}

\* the named groups that are closed where the fragment of
\* WORD_ATTRIBUTES[k] of a word starts: those of the words before it and
\* the groups wid_<id>_<attr> of its own earlier attributes (the groups of
\* the enclosing sequences are open, a back-reference of a property never
\* has their names)
ClosedBefore(names, w_strid, k) ==
  {names[j] : j \in 1..Len(names)}
    \cup (IF Truthy(w_strid)
          THEN {WidGroup(w_strid, "wordnum")}
                 \cup {WidGroup(w_strid, WORD_ATTRIBUTES[j]) : j \in 1..(k - 1)}
          ELSE {})

\* propval.value.split(":") for the values of syndep the patterns use
SplitColon(value) ==
  CASE value = "dobj:n1" -> [deptype |-> "dobj", depref |-> "n1"]
    [] value = "dobj:n2" -> [deptype |-> "dobj", depref |-> "n2"]
    [] value = "dobj:n3" -> [deptype |-> "dobj", depref |-> "n3"]
    [] value = "nsubj:n1" -> [deptype |-> "nsubj", depref |-> "n1"]

NoSyndep == [kind |-> "none", deptype |-> "", ref |-> ""]

\* self.forepattern_ids[w_strid], None when the key is missing
ForepatternId(forepattern_ids, w_strid) ==
  LET hits == SelectSeq(forepattern_ids, LAMBDA e : e.strid = w_strid)
  IN  IF hits = <<>> THEN None ELSE hits[Len(hits)].foredep

\* mutant: a reference is a back-reference only to a word parsed before
\* this one
IsBackreferenceEarlier(depref, defined_w_ids, w_strid) ==
  InSeq(depref, defined_w_ids) /\ depref # w_strid

\* "if depref in self.defined_w_ids", evaluated after the word's own id was
\* appended to defined_w_ids
IsBackreference(depref, defined_w_ids, w_strid) == InSeq(depref, defined_w_ids)

\* A word with an id opens the group id_<id> and, inside it, one group
\* wid_<id>_<attr> per attribute; a syndep property replaces the fragment
\* of syn (and its group) by the back-reference to wid_<ref>_wordnum or by
\* the new group foreid_foredep_<n>.
_parse_w(w_patobj, parent_strid, scope_repeat, cs) ==
  LET w_strid == w_patobj.w_strid
      has_id  == Truthy(w_strid)
      syndeps == PropsOf(w_patobj.positive_props, "syndep")
      has_dep == syndeps # <<>>
      cs1 == IF has_id THEN _check_scope_repeat(scope_repeat, cs) ELSE cs
      wordnum_ref == IF has_id THEN ForepatternId(cs1.forepattern_ids, w_strid) ELSE None
      defined == IF has_id THEN Append(cs1.defined_w_ids, w_strid) ELSE cs1.defined_w_ids
      dep   == SplitColon(syndeps[1].value.value)
      back  == has_dep /\ IsBackreference(dep.depref, defined, w_strid)
      fore  == has_dep /\ ~back
      foredep == "foredep_" \o ToString(cs1.temp_id)
      syndep == IF back THEN [kind |-> "back", deptype |-> dep.deptype, ref |-> dep.depref]
                ELSE IF fore THEN [kind |-> "fore", deptype |-> dep.deptype, ref |-> foredep]
                ELSE NoSyndep
      num == Len(cs1.names) + 1
      names == (IF has_id
                THEN <<"id_" \o w_strid,
                       "wid_" \o w_strid \o "_wordnum",
                       "wid_" \o w_strid \o "_surface",
                       "wid_" \o w_strid \o "_lemma",
                       "wid_" \o w_strid \o "_pos">>
                     \o (IF has_dep THEN <<>> ELSE <<"wid_" \o w_strid \o "_syn">>)
                ELSE <<>>)
               \o (IF fore THEN <<"foreid_" \o foredep>> ELSE <<>>)
      attrs == [a \in {WORD_ATTRIBUTES[k] : k \in 1..Len(WORD_ATTRIBUTES)} |->
                  IF a = "syn" /\ has_dep
                  THEN [base |-> ATTRIBUTE_WILDCARD, lookahead |-> <<>>, neg_lookahead |-> <<>>]
                  ELSE AttrRegex(w_patobj, a)]
      refs == UNION {{[name |-> name, closed |-> ClosedBefore(cs1.names, w_strid, k)] :
                        name \in BackrefsOf(attrs[WORD_ATTRIBUTES[k]])} :
                     k \in 1..Len(WORD_ATTRIBUTES)}
      cs2 == [cs1 EXCEPT
                !.names = @ \o names,
                !.refs = @ \cup refs,
                !.error = @ \/ (has_id /\ InSeq(w_strid, cs1.defined_w_ids)),
                !.defined_w_ids = defined,
                !.temp_id = IF fore THEN @ + 1 ELSE @,
                !.forepattern_ids =
                   IF fore THEN Append(@, [strid |-> dep.depref, foredep |-> foredep]) ELSE @]
      w_pat == [op |-> "w", attrs |-> attrs,
                w_strid |-> IF has_id THEN w_strid ELSE None,
                wordnum_ref |-> wordnum_ref, syndep |-> syndep]
  IN  IF has_id
      THEN [cs |-> cs2, re |-> [op |-> "group", num |-> num, ignore |-> FALSE, body |-> w_pat]]
      ELSE [cs |-> cs2, re |-> w_pat]

RECURSIVE _do_parse(_, _, _, _), ParseSubpatterns(_, _, _, _, _)

\* the loop "for subpat in subpatterns: self._do_parse(subpat, ...)",
\* collecting the emitted fragments
ParseSubpatterns(subpatterns, k, parent_strid, scope_repeat, cs) ==
  IF k > Len(subpatterns) THEN [cs |-> cs, res |-> <<>>]
  ELSE LET first == _do_parse(subpatterns[k], parent_strid, scope_repeat, cs)
           rest  == ParseSubpatterns(subpatterns, k + 1, parent_strid, scope_repeat, first.cs)
       IN  [cs |-> rest.cs, res |-> <<first.re>> \o rest.res]

_parse_seq(seq_patobj, parent_strid0, scope_repeat0, cs0) ==
  LET seq_strid == seq_patobj.seq_strid
      repeat    == seq_patobj.repeat
      ignore    == seq_patobj.ignore
      \* if ignore:
      ign_strid == "ignore_" \o ToString(Len(cs0.ignored2strid))
      ign_num   == Len(cs0.names) + 1
      cs1 == IF ignore
             THEN LET c == OpenGroup(_check_scope_repeat(scope_repeat0, cs0), ign_strid)
                  IN  SetParent([c EXCEPT !.ignored2strid = Append(@, ign_strid)],
                                ign_strid, parent_strid0)
             ELSE cs0
      parent_strid1 == IF ignore THEN ign_strid ELSE parent_strid0
      \* if seq_strid:
      id_strid == "id_" \o seq_strid
      id_num   == Len(cs1.names) + 1
      cs2 == IF Truthy(seq_strid)
             THEN SetParent(OpenGroup(_check_scope_repeat(scope_repeat0, cs1), id_strid),
                            id_strid, parent_strid1)
             ELSE cs1
      parent_strid2 == IF Truthy(seq_strid) THEN id_strid ELSE parent_strid1
      scope_repeat == IF scope_repeat0 # None /\ repeat # "" THEN "seq" ELSE scope_repeat0
      sub == ParseSubpatterns(seq_patobj.subpatterns, 1, parent_strid2, scope_repeat, cs2)
      body == [op |-> "cat", items |-> sub.res]
      rep  == IF Truthy(repeat)
              THEN [op |-> "rep", min |-> RepeatMin(repeat), max |-> RepeatMax(repeat),
                    tail |-> RepeatTail(repeat), body |-> body]
              ELSE body
      idg  == IF Truthy(seq_strid)
              THEN [op |-> "group", num |-> id_num, ignore |-> FALSE, body |-> rep]
              ELSE rep
      ig   == IF ignore
              THEN [op |-> "group", num |-> ign_num, ignore |-> TRUE, body |-> idg]
              ELSE idg
      \* if repeat: ... self.ctxinfo.warn("Invalid repeat pattern")
      cs3 == IF Truthy(repeat) /\ InvalidRepeat(repeat)
             THEN [sub.cs EXCEPT !.warnings = Append(@, "Invalid repeat pattern")]
             ELSE sub.cs
  IN  [cs |-> cs3, re |-> ig]

_parse_either(either_patobj, parent_strid, scope_repeat, cs) ==
  LET sub == ParseSubpatterns(either_patobj.subpatterns, 1, parent_strid, scope_repeat, cs)
  IN  [cs |-> sub.cs, re |-> [op |-> "alt", items |-> sub.res]]

_do_parse(pat_obj, parent_strid, scope_repeat, cs) ==
  CASE pat_obj.type = "seq"    -> _parse_seq(pat_obj, parent_strid, scope_repeat, cs)
    [] pat_obj.type = "either" -> _parse_either(pat_obj, parent_strid, scope_repeat, cs)
    [] pat_obj.type = "w"      -> _parse_w(pat_obj, parent_strid, scope_repeat, cs)


\* ---------------------------------------------------- PatternMatcher object
IndexOf(x, s) == CHOOSE k \in 1..Len(s) : s[k] = x

\* self._strid2numid[strid]
Strid2numid(groupindex, strid) ==
  IF strid = "id_*" THEN 0
  ELSE IF InSeq(strid, groupindex) THEN IndexOf(strid, groupindex)
  ELSE KeyError

RECURSIVE AncestorChain(_, _)
\* the slots visited by the walk "ancestor = numid ... ancestor =
\* self.numid2parent[ancestor]" up to slot 0
AncestorChain(numid2parent, numid) ==
  IF numid = 0 THEN {0}
  ELSE {numid} \cup AncestorChain(numid2parent, numid2parent[numid])

\* collections.defaultdict(list): a dictionary; reading a missing key gives
\* the empty list and stores it under the key
DefaultDictGet(d, key) == IF key \in DOMAIN d THEN d[key] ELSE <<>>

DefaultDictTouch(d, keys) ==
  [key \in DOMAIN d \cup keys |-> IF key \in DOMAIN d THEN d[key] ELSE <<>>]

\* mutant: the ignored slot is registered for itself only, without the walk
\* up the parent chain
FillIgnoredNoWalk(cs, numid2parent) ==
  LET ignored == [k \in 1..Len(cs.ignored2strid) |->
                    Strid2numid(cs.names, cs.ignored2strid[k])]
  IN  [ancestor \in {ignored[k] : k \in 1..Len(ignored)} |->
         SelectSeq(ignored, LAMBDA numid : ancestor = numid)]

_fill_ignored_sub_numids(cs, numid2parent) ==
  LET ignored == [k \in 1..Len(cs.ignored2strid) |->
                    Strid2numid(cs.names, cs.ignored2strid[k])]
  IN  [ancestor \in UNION {AncestorChain(numid2parent, ignored[k]) : k \in 1..Len(ignored)} |->
         SelectSeq(ignored, LAMBDA numid : ancestor \in AncestorChain(numid2parent, numid))]

RECURSIVE MatchesEmpty(_, _)

_post_parsing(parsed) ==
  LET cs == parsed.cs
      numid2parent ==
        [n \in {Strid2numid(cs.names, cs.strid2parent[k].strid) : k \in 1..Len(cs.strid2parent)} |->
           LET e == CHOOSE e \in {cs.strid2parent[k] : k \in 1..Len(cs.strid2parent)} :
                      Strid2numid(cs.names, e.strid) = n
           IN  Strid2numid(cs.names, e.parent)]
  IN  [compiled_pattern   |-> parsed.re,
       groupindex         |-> cs.names,
       numid2parent       |-> numid2parent,
       ignored_numids     |-> {Strid2numid(cs.names, cs.ignored2strid[k]) :
                                 k \in 1..Len(cs.ignored2strid)},
       ignored_sub_numids |-> _fill_ignored_sub_numids(cs, numid2parent),
       warnings           |-> cs.warnings
                                \o (IF MatchesEmpty(parsed.re, Len(cs.names))
                                    THEN <<"Pattern matches empty string">> ELSE <<>>)]

\* PatternMatcher.__init__: parse from the root with parent "id_*" and no
\* enclosing repeat scope, then fill the tables
PatternMatcher(patternobj) == _post_parsing(_do_parse(patternobj, "id_*", None, InitParse))

\* mutant: a group name may be defined twice
ReCompileAccepts(names) == FALSE

\* re.compile raises re.error when two groups have the same name
ReCompileFails(names) ==
  \E j \in 1..Len(names) : \E k \in 1..Len(names) : j < k /\ names[j] = names[k]

\* re.compile raises re.error ("unknown group name", "cannot refer to an
\* open group") for a back-reference to a group that is not closed yet
ReCompileFailsUnknownGroup(refs) == \E r \in refs : r.name \notin r.closed

\* PatternMatcher(patternobj) raises: "Id defined twice" in _parse_w, or
\* re.error in _post_parsing
CompileFails(patternobj) ==
  LET cs == _do_parse(patternobj, "id_*", None, InitParse).cs
  IN  cs.error \/ ReCompileFails(cs.names) \/ ReCompileFailsUnknownGroup(cs.refs)

\* ------------------------------------------------ the regex engine (re)
\* the text captured by a named group: the set holding it, empty when
\* the group took no part in the match
Captured(marks, name) == {c[2] : c \in {d \in marks : d[1] = name}}

SetCapture(marks, name, value) == {c \in marks : c[1] # name} \cup {<<name, value>>}

\* the consuming regex of an attribute, followed by the separator, against
\* the whole text of the attribute
BaseOK(piece, value, marks) ==
  CASE piece.re = "wildcard" -> TRUE
    [] piece.re = "literal"  -> piece.arg = value
    [] piece.re = "backref"  -> value \in Captured(marks, piece.arg)

\* "(?=...)" and "(?!...)" test the text from the start of the attribute
\* and do not look for its end
LookOK(piece, value, marks) ==
  CASE piece.re = "wildcard" -> TRUE
    [] piece.re = "literal"  -> IsPrefix(piece.arg, value)
    [] piece.re = "backref"  -> \E v \in Captured(marks, piece.arg) : IsPrefix(v, value)

AttrOK(rx, value, marks) ==
  /\ BaseOK(rx.base, value, marks)
  /\ \A k \in 1..Len(rx.lookahead) : LookOK(rx.lookahead[k], value, marks)
  /\ \A k \in 1..Len(rx.neg_lookahead) : ~LookOK(rx.neg_lookahead[k], value, marks)

\* the marks after the first k attributes of the token matched the
\* fragments of the word, each closing its group wid_<id>_<attr>; the
\* empty set when one of them does not match
RECURSIVE WordOK(_, _, _, _)
WordOK(w_pat, word, marks, k) ==
  IF k = 0 THEN {marks}
  ELSE LET attr  == WORD_ATTRIBUTES[k]
           value == EncodedAttr(word, attr)
       IN  {IF w_pat.w_strid = None \/ (attr = "syn" /\ w_pat.syndep.kind # "none") THEN m
            ELSE SetCapture(m, WidGroup(w_pat.w_strid, attr), value) :
              m \in {n \in WordOK(w_pat, word, marks, k - 1) :
                       AttrOK(w_pat.attrs[attr], value, n)}}

\* text holds sub from its k-th character on
OccursAt(text, sub, k) ==
  k + Len(sub) - 1 <= Len(text) /\ SubSeq(text, k, k + Len(sub) - 1) = sub

\* the texts d of the occurrences ";deptype:d;" in the rendered syn with d
\* made of digits, last occurrence first: the order in which the greedy
\* wildcard before ";deptype:" finds them
RECURSIVE HeadsOf(_, _, _)
HeadsOf(text, deptype, k) ==
  IF k > Len(text) THEN <<>>
  ELSE LET open == ";" \o deptype \o ":"
           from == k + Len(open)
           ends == {e \in from..Len(text) :
                     /\ SubSeq(text, e, e) = ";"
                     /\ IsDigits(SubSeq(text, from, e - 1))}
       IN  HeadsOf(text, deptype, k + 1)
             \o (IF OccursAt(text, open, k) /\ ends # {}
                 THEN LET e == CHOOSE e \in ends : \A f \in ends : e <= f
                      IN  <<SubSeq(text, from, e - 1)>>
                 ELSE <<>>)

\* the fragment the syndep property puts in the place of syn:
\* wildcard ";deptype:(?P=wid_<ref>_wordnum);" wildcard for a
\* back-reference, which needs the text ";deptype:<captured>;" somewhere in
\* the rendered syn
SynOK(syndep, text, marks) ==
  \E v \in Captured(marks, WidGroup(syndep.ref, "wordnum")) :
    \E k \in 1..Len(text) : OccursAt(text, ";" \o syndep.deptype \o ":" \o v \o ";", k)

\* One word fragment against the token of number wordnum, from the marks
\* st: the group wid_<id>_wordnum captures wordnum, "(?P=foreid_<n>)" in
\* the place of wordnum needs the captured head to be wordnum, a
\* back-reference needs a pair "deptype:<captured wordnum>" in syn, a
\* fore-reference captures the head of a pair "deptype:<head>".
ReWord(rx, st, word, wordnum) ==
  LET num == ToString(wordnum)
      wid0 == IF rx.w_strid = None THEN st.wid
              ELSE SetCapture(st.wid, WidGroup(rx.w_strid, "wordnum"), num)
      wids == IF rx.wordnum_ref = None \/ num \in Captured(st.fore, rx.wordnum_ref)
              THEN WordOK(rx, word, wid0, Len(WORD_ATTRIBUTES))
              ELSE {}
      text == EncodedAttr(word, "syn")
      heads == HeadsOf(text, rx.syndep.deptype, 1)
  IN  IF wids = {} THEN <<>>
      ELSE LET wid == CHOOSE w \in wids : TRUE
               st1 == [st EXCEPT !.t = @ + 1, !.wid = wid]
           IN  CASE rx.syndep.kind = "none" -> <<st1>>
                 [] rx.syndep.kind = "back" ->
                      IF SynOK(rx.syndep, text, wid) THEN <<st1>> ELSE <<>>
                 [] rx.syndep.kind = "fore" ->
                      [k \in 1..Len(heads) |->
                         [st1 EXCEPT !.fore = SetCapture(@, rx.syndep.ref, heads[k])]]

\* cx: [words, positions, total, endpos]; offset of the cursor after t tokens
Off(cx, t) == IF t < Len(cx.words) THEN cx.positions[t + 1] ELSE cx.total

RECURSIVE ReMatch(_, _, _), ReCat(_, _, _, _), ReCatEach(_, _, _, _, _),
          ReAlt(_, _, _, _), ReRep(_, _, _, _), ReRepEach(_, _, _, _, _, _)

\* The literal text a repeat value leaves after its quantifier starts, in
\* the patterns here, with a character that is no digit; what follows a
\* word in wordstring is the number of the next word or the end, so the
\* fragment matches nothing.
\* All the ways re can match the fragment rx from state st (t tokens
\* consumed, span the group marks), in the order the backtracking engine
\* tries them: alternatives left to right, repetitions greedy.  ign records
\* the tokens consumed inside an "ignore_" group, whatever the marks say.
ReMatch(rx, st, cx) ==
  CASE rx.op = "w" ->
         IF /\ st.t < Len(cx.words)
            /\ Off(cx, st.t + 1) <= cx.endpos
         THEN ReWord(rx, st, cx.words[st.t + 1], st.t + 1)
         ELSE <<>>
    [] rx.op = "group" ->
         LET inner == ReMatch(rx.body, st, cx)
         IN  [k \in 1..Len(inner) |->
                [inner[k] EXCEPT
                   !.span[rx.num] = <<Off(cx, st.t), Off(cx, inner[k].t)>>,
                   !.ign = IF rx.ignore THEN @ \cup (st.t .. inner[k].t - 1) ELSE @]]
    [] rx.op = "cat" -> ReCat(rx.items, 1, st, cx)
    [] rx.op = "alt" -> IF rx.items = <<>> THEN <<st>> ELSE ReAlt(rx.items, 1, st, cx)
    [] rx.op = "rep" -> IF rx.tail = "" THEN ReRep(rx, 0, st, cx) ELSE <<>>

ReCat(items, k, st, cx) ==
  IF k > Len(items) THEN <<st>>
  ELSE ReCatEach(items, k, ReMatch(items[k], st, cx), 1, cx)

ReCatEach(items, k, sts, j, cx) ==
  IF j > Len(sts) THEN <<>>
  ELSE ReCat(items, k + 1, sts[j], cx) \o ReCatEach(items, k, sts, j + 1, cx)

ReAlt(items, k, st, cx) ==
  IF k > Len(items) THEN <<>>
  ELSE ReMatch(items[k], st, cx) \o ReAlt(items, k + 1, st, cx)

\* greedy repeat: one more iteration first, then leaving the loop; an
\* iteration that consumed nothing is not repeated once min is reached
ReRep(rx, count, st, cx) ==
  (IF count < rx.max THEN ReRepEach(rx, count, st, ReMatch(rx.body, st, cx), 1, cx) ELSE <<>>)
    \o (IF count >= rx.min THEN <<st>> ELSE <<>>)

ReRepEach(rx, count, st, sts, j, cx) ==
  IF j > Len(sts) THEN <<>>
  ELSE (IF sts[j].t = st.t /\ count + 1 >= rx.min
        THEN <<sts[j]>>
        ELSE ReRep(rx, count + 1, sts[j], cx))
       \o ReRepEach(rx, count, st, sts, j + 1, cx)

\* self.compiled_pattern.match(self.WORD_SEPARATOR) in _post_parsing: the
\* pattern against the sentence of no word
MatchesEmpty(compiled_pattern, ngroups) ==
  LET cx == [words |-> <<>>, positions |-> <<>>, total |-> seplen, endpos |-> seplen]
      st0 == [t |-> 0, span |-> [n \in 0..ngroups |-> Unmatched], ign |-> {},
              wid |-> {}, fore |-> {}]
  IN  ReMatch(compiled_pattern, st0, cx) # <<>>

\* self.compiled_pattern.match(wordstring, current_start-1, current_end):
\* the leading WORD_SEPARATOR, then the pattern; the first successful path
\* is the match.
CompiledMatch(m, ws, current_start, current_end) ==
  LET positions == Positions(ws)
      cx == [words |-> ws, positions |-> positions, total |-> WordstringLen(ws),
             endpos |-> IF current_end > WordstringLen(ws) THEN WordstringLen(ws) ELSE current_end]
      t0 == BisectLeft(positions, current_start)
      st0 == [t |-> t0, span |-> [n \in 0..Len(m.groupindex) |-> Unmatched], ign |-> {},
              wid |-> {}, fore |-> {}]
      paths == IF current_start - 1 + seplen <= cx.endpos
               THEN ReMatch(m.compiled_pattern, st0, cx) ELSE <<>>
  IN  IF paths = <<>> THEN NoMatch
      ELSE [paths[1] EXCEPT !.span[0] = <<current_start - 1, Off(cx, paths[1].t)>>]


\* -------------------------------------------------------- match executor
\* mutant: an unknown id stands for the whole match
YieldWholeMatchOnKeyError(numid) == IF numid = KeyError THEN <<0>> ELSE <<numid>>

\* "try: yield self._strid2numid[...] except KeyError: warn_once": what one
\* requested id adds to the generator's output
YieldUnlessKeyError(numid) == IF numid = KeyError THEN <<>> ELSE <<numid>>

\* strids2numids: the slots of the requested ids, unknown ids skipped
RECURSIVE strids2numids(_, _)
strids2numids(m, strid_order) ==
  IF strid_order = <<>> THEN <<>>
  ELSE YieldUnlessKeyError(Strid2numid(m.groupindex, "id_" \o Head(strid_order)))
         \o strids2numids(m, Tail(strid_order))

\* the ids of strid_order that get the warning "Pattern does not define id"
UnknownIds(m, strid_order) ==
  {strid_order[k] : k \in {j \in 1..Len(strid_order) :
      Strid2numid(m.groupindex, "id_" \o strid_order[j]) = KeyError}}

\* mutant: the first offset of an ignored range is not taken as inside it
InRangesOpen(pos, ranges) ==
  \E k \in 1..Len(ranges) : ranges[k][1] < pos /\ pos < ranges[k][2]

InRanges(pos, ranges) ==
  \E k \in 1..Len(ranges) : ranges[k][1] <= pos /\ pos < ranges[k][2]

RECURSIVE SlicePositions(_, _, _, _)
\* "for pos in itertools.islice(positions, i, None)" from the 1-based index k
SlicePositions(positions, k, p_end, ignored_ranges) ==
  IF k > Len(positions) THEN <<>>
  ELSE IF positions[k] >= p_end THEN <<>>
  ELSE (IF ~InRanges(positions[k], ignored_ranges) THEN <<k - 1>> ELSE <<>>)
       \o SlicePositions(positions, k + 1, p_end, ignored_ranges)

\* mutant: appends the bisect index i instead of pos2wordnum[pos]
WordnumsOfStaleIndex(m, positions, span, numid) ==
  LET sub == DefaultDictGet(m.ignored_sub_numids, numid)
      ignored_ranges == [k \in 1..Len(sub) |-> span[sub[k]]]
      i0    == BisectLeft(positions, span[numid][1])
      found == SlicePositions(positions, i0 + 1, span[numid][2], ignored_ranges)
  IN  [k \in 1..Len(found) |-> i0]

\* the body of "for numid in numid_order" for one numid
WordnumsOf(m, positions, span, numid) ==
  LET sub == DefaultDictGet(m.ignored_sub_numids, numid)
      ignored_ranges == [k \in 1..Len(sub) |-> span[sub[k]]]
      p_beg == span[numid][1]
      p_end == span[numid][2]
      i0    == BisectLeft(positions, p_beg)
  IN  SlicePositions(positions, i0 + 1, p_end, ignored_ranges)

RECURSIVE Concat(_)
Concat(lists) == IF lists = <<>> THEN <<>> ELSE Head(lists) \o Concat(Tail(lists))

Ngram(word_list) == word_list

NgramLen(ngram) == Len(ngram)

\* mutant: the retry keeps the bound, current_end = end; the first two
\* rounds of the loop
_matches_at_same_end(m, ws, current_start, limit, order, anchorEnd) ==
  LET match_result == CompiledMatch(m, ws, current_start, limit)
  IN  IF match_result = NoMatch THEN <<>>
      ELSE LET parts == [k \in 1..Len(order) |->
                           WordnumsOf(m, Positions(ws), match_result.span, order[k])]
               wordnums == Concat(parts)
               res == [ngram    |-> Ngram([k \in 1..Len(wordnums) |-> ws[wordnums[k] + 1]]),
                       wordnums |-> wordnums,
                       span     |-> match_result.span,
                       parts    |-> parts,
                       ignored  |-> match_result.ign]
           IN  IF anchorEnd THEN <<res>> ELSE <<res, res>>

RECURSIVE _matches_at(_, _, _, _, _, _)
\* the list of what the generator _matches_at yields: the pairs (ngram,
\* wordnums).  Each pair is kept with the match it came from: span is
\* match_result.span(numid), parts the indexes appended for each numid of
\* numid_order, ignored the tokens consumed inside ignored sequences.
_matches_at(m, ws, current_start, limit, order, anchorEnd) ==
  LET match_result == CompiledMatch(m, ws, current_start, limit)
  IN  IF match_result = NoMatch THEN <<>>
      ELSE LET end == match_result.span[0][2]
               parts == [k \in 1..Len(order) |->
                           WordnumsOf(m, Positions(ws), match_result.span, order[k])]
               wordnums == Concat(parts)
               res == [ngram    |-> Ngram([k \in 1..Len(wordnums) |-> ws[wordnums[k] + 1]]),
                       wordnums |-> wordnums,
                       span     |-> match_result.span,
                       parts    |-> parts,
                       ignored  |-> match_result.ign]
           IN  <<res>> \o (IF anchorEnd THEN <<>>
                           ELSE _matches_at(m, ws, current_start, end - 1, order, anchorEnd))

Policies == {"All", "Longest", "Shortest"}

\* mutant: All takes the branch of Shortest
SelectedAllAsShortest(policy, here) ==
  CASE policy = "All"      -> IF here # <<>> THEN <<here[Len(here)]>> ELSE <<>>
    [] policy = "Longest"  -> IF here # <<>> THEN <<here[1]>> ELSE <<>>
    [] policy = "Shortest" -> IF here # <<>> THEN <<here[Len(here)]>> ELSE <<>>
    [] OTHER               -> <<>>

\* what one iteration of the scan loop yields
Selected(policy, here) ==
  CASE policy = "All"      -> here
    [] policy = "Longest"  -> IF here # <<>> THEN <<here[1]>> ELSE <<>>
    [] policy = "Shortest" -> IF here # <<>> THEN <<here[Len(here)]>> ELSE <<>>
    [] OTHER               -> <<>>

\* the value of increment at "i += increment"
Increment(policy, ovl, here) ==
  CASE policy = "Longest" /\ here # <<>> /\ ~ovl  -> NgramLen(here[1].ngram)
    [] policy = "Shortest" /\ here # <<>> /\ ~ovl -> NgramLen(here[Len(here)].ngram)
    [] OTHER -> 1

\* the two "raise Exception" of the scan loop
Raises(policy, ovl) == (policy = "All" /\ ~ovl) \/ policy \notin Policies

\* mutant: the scan goes on whatever anchor_begin says
NextPcNoReturn(ab) == "loop"

\* "if anchor_begin: return" after "i += increment"
NextPc(ab) == IF ab THEN "done" ELSE "loop"

RECURSIVE Scan(_, _, _, _, _, _, _, _)
\* everything a call matches(ws, policy, ovl, ...) that does not raise
\* yields from cursor position k on; the list is cut where the cursor
\* would not move
Scan(m, ws, policy, ovl, order, ab, ae, k) ==
  IF k >= Len(Positions(ws)) THEN <<>>
  ELSE LET here == _matches_at(m, ws, Positions(ws)[k + 1], WordstringLen(ws), order, ae)
       IN  Selected(policy, here)
           \o (IF NextPc(ab) = "done" \/ Increment(policy, ovl, here) = 0 THEN <<>>
               ELSE Scan(m, ws, policy, ovl, order, ab, ae, k + Increment(policy, ovl, here)))

\* the end offsets of all the ways the pattern can match from token t0
MatchEnds(m, ws, t0) ==
  LET cx == [words |-> ws, positions |-> Positions(ws), total |-> WordstringLen(ws),
             endpos |-> WordstringLen(ws)]
      st0 == [t |-> t0, span |-> [n \in 0..Len(m.groupindex) |-> Unmatched], ign |-> {},
              wid |-> {}, fore |-> {}]
      paths == ReMatch(m.compiled_pattern, st0, cx)
  IN  {Off(cx, paths[k].t) : k \in 1..Len(paths)}


\* --------------------------------------------------------------- inputs
\* [lemma="a"]
PatWord == SequencePattern(None, None, FALSE, <<WordPattern(None, "a")>>)

\* either( seq([lemma="a"]) | seq([lemma="a"] [lemma="bb"]) )
PatEither ==
  SequencePattern(None, None, FALSE,
    <<EitherPattern(<<SequencePattern(None, None, FALSE, <<WordPattern(None, "a")>>),
                      SequencePattern(None, None, FALSE,
                        <<WordPattern(None, "a"), WordPattern(None, "bb")>>)>>)>>)

\* seq([lemma="a"]){repeat=?}
PatOptional == SequencePattern(None, "?", FALSE, <<WordPattern(None, "a")>>)

\* build_generic_pattern(ctxinfo, 1, 2)
PatGeneric == SequencePattern(None, "{1,2}", FALSE, <<WordPattern(None, None)>>)

\* seq{id=s}( [lemma="a"]{id=a} seq{id=g, ignore}([lemma="a"]) )
PatIgnore ==
  SequencePattern("s", None, FALSE,
    <<WordPattern("a", "a"),
      SequencePattern("g", None, TRUE, <<WordPattern(None, "a")>>)>>)

\* seq( seq{repeat=+}( seq{ignore}([lemma="bb"]) ) [lemma="a"] )
PatRepeatIgnore ==
  SequencePattern(None, None, FALSE,
    <<SequencePattern(None, "+", FALSE,
        <<SequencePattern(None, None, TRUE, <<WordPattern(None, "bb")>>)>>),
      WordPattern(None, "a")>>)

\* two words with the same id, in the two branches of an Either
PatDupWords ==
  SequencePattern(None, None, FALSE,
    <<EitherPattern(<<SequencePattern(None, None, FALSE, <<WordPattern("a", "a")>>),
                      SequencePattern(None, None, FALSE, <<WordPattern("a", "bb")>>)>>)>>)

\* two sequences with the same id
PatDupSeqs ==
  SequencePattern(None, None, FALSE,
    <<SequencePattern("s", None, FALSE, <<WordPattern(None, "a")>>),
      SequencePattern("s", None, FALSE, <<WordPattern(None, "bb")>>)>>)

\* a sequence and a word with the same id
PatDupWordSeq == SequencePattern("a", None, FALSE, <<WordPattern("a", "a")>>)

Patterns == {PatWord, PatEither, PatOptional, PatGeneric, PatIgnore, PatRepeatIgnore,
             PatDupWords, PatDupSeqs, PatDupWordSeq}

IdOrders == {<<"*">>, <<"*", "a">>, <<"s", "g">>, <<"g">>}

MatchDistances == Policies \cup {"Nearest"}

\* the most a finite scan of MaxLen tokens can yield, plus one
MaxYield == ((MaxLen + 1) * (MaxLen + 2)) \div 2

\* the ids a call may request
Strids == {"*", "a", "s", "g", "n1", "n2"}

\* ctxinfo: how many times the warning "Pattern does not define id" was
\* emitted for each id
NoWarnings == [strid \in Strids |-> 0]

warn_once(log, strid) == IF log[strid] = 0 THEN [log EXCEPT ![strid] = 1] ELSE log

RECURSIVE WarnUnknown(_, _, _)
\* the warnings of one run of strids2numids
WarnUnknown(log, m, strid_order) ==
  IF strid_order = <<>> THEN log
  ELSE WarnUnknown(IF Strid2numid(m.groupindex, "id_" \o Head(strid_order)) = KeyError
                   THEN warn_once(log, Head(strid_order)) ELSE log,
                   m, Tail(strid_order))

\* the call of a method of a pattern node and the exception it raised
NoCall == [op |-> "", path |-> <<>>, raised |-> None]

\* an MWEOccurrence and what is_contiguous() and is_gappy() returned
NoOccur == [indexes |-> <<>>, called |-> {}, contiguous |-> FALSE, gappy |-> FALSE]

\* mutant: the matcher is built on every call
CachedMatcherRebuilt(m, patternobj) == PatternMatcher(patternobj)

\* "if not self._matcher: self._matcher = PatternMatcher(self)"
CachedMatcher(m, patternobj) == IF m = NoMatcher THEN PatternMatcher(patternobj) ELSE m

\* the matcher after _matches_at ran: every match reads
\* self.ignored_sub_numids[numid] for each numid of numid_order, and the
\* defaultdict stores the keys it did not hold
MatcherAfter(m, here, order) ==
  IF here = <<>> THEN m
  ELSE [m EXCEPT !.ignored_sub_numids =
          DefaultDictTouch(@, {order[k] : k \in 1..Len(order)})]

RECURSIVE Rebuild(_)
\* the same pattern built again: new nodes, not frozen
Rebuild(node) ==
  IF node.type = "w" THEN [node EXCEPT !._frozen = FALSE]
  ELSE [node EXCEPT !._frozen = FALSE,
                    !.subpatterns = [k \in 1..Len(node.subpatterns) |->
                                       Rebuild(node.subpatterns[k])]]

\* ------------------------------------------------------------ the machine
InitGenerator ==
  /\ words = <<>>
  /\ match_distance = "All"
  /\ overlapping = TRUE
  /\ id_order = <<"*">>
  /\ anchor_begin = FALSE
  /\ anchor_end = FALSE
  /\ pc = "idle"
  /\ numid_order = <<>>
  /\ i = 0
  /\ matches_here = <<>>
  /\ pending = <<>>
  /\ increment = 1
  /\ yielded = <<>>

Init ==
  /\ pat \in Patterns
  /\ matcher = NoMatcher
  /\ InitGenerator
  /\ warned = NoWarnings
  /\ last_call = NoCall
  /\ occur = NoOccur

\* AbstractPattern.matches: freeze, build the matcher on first use, then
\* create the generator PatternMatcher.matches(words, ...); its body has not
\* run yet.  When PatternMatcher(self) raises, _matcher is not assigned and
\* there is no generator.
Call(ws, md, ovl, ids, ab, ae) ==
  /\ pc = "idle"
  /\ pat' = freeze(pat)
  /\ IF matcher = NoMatcher /\ CompileFails(freeze(pat))
     THEN /\ matcher' = matcher
          /\ pc' = "error"
          /\ last_call' = [op |-> "matches", path |-> <<>>, raised |-> "Exception"]
          /\ UNCHANGED <<words, match_distance, overlapping, id_order, anchor_begin,
                         anchor_end, numid_order, i, matches_here, pending,
                         increment, yielded>>
     ELSE /\ matcher' = CachedMatcher(matcher, freeze(pat))
          /\ last_call' = [op |-> "matches", path |-> <<>>, raised |-> None]
          /\ words' = ws
          /\ match_distance' = md
          /\ overlapping' = ovl
          /\ id_order' = ids
          /\ anchor_begin' = ab
          /\ anchor_end' = ae
          /\ pc' = "start"
          /\ numid_order' = <<>>
          /\ i' = 0
          /\ matches_here' = <<>>
          /\ pending' = <<>>
          /\ increment' = 1
          /\ yielded' = <<>>
  /\ UNCHANGED <<warned, occur>>

\* first resumption, lines 497-515: resolve the ids, encode the sentence
Begin ==
  /\ pc = "start"
  /\ numid_order' = strids2numids(matcher, id_order)
  /\ warned' = WarnUnknown(warned, matcher, id_order)
  /\ i' = 0
  /\ pc' = "loop"
  /\ UNCHANGED <<pat, matcher, words, match_distance, overlapping, id_order,
                 anchor_begin, anchor_end, matches_here, pending, increment, yielded,
                 last_call, occur>>

\* "while i < len(positions)" is false: the generator ends
LoopExit ==
  /\ pc = "loop"
  /\ i >= Len(Positions(words))
  /\ pc' = "done"
  /\ UNCHANGED <<pat, matcher, words, match_distance, overlapping, id_order,
                 anchor_begin, anchor_end, numid_order, i, matches_here, pending,
                 increment, yielded, warned, last_call, occur>>

\* one iteration of the scan loop up to its first yield, lines 517-538
Loop ==
  /\ pc = "loop"
  /\ i < Len(Positions(words))
  /\ LET here == _matches_at(matcher, words, Positions(words)[i + 1],
                             WordstringLen(words), numid_order, anchor_end)
     IN  /\ matches_here' = here
         /\ matcher' = MatcherAfter(matcher, here, numid_order)
         /\ IF Raises(match_distance, overlapping)
            THEN /\ pc' = "error"
                 /\ UNCHANGED <<pending, increment>>
            ELSE /\ pc' = "yield"
                 /\ pending' = Selected(match_distance, here)
                 /\ increment' = Increment(match_distance, overlapping, here)
  /\ UNCHANGED <<pat, words, match_distance, overlapping, id_order,
                 anchor_begin, anchor_end, numid_order, i, yielded,
                 warned, last_call, occur>>

\* "yield m": the consumer receives the next selected match
Yield ==
  /\ pc = "yield"
  /\ pending # <<>>
  /\ Len(yielded) < MaxYield
  /\ yielded' = Append(yielded, Head(pending))
  /\ pending' = Tail(pending)
  /\ UNCHANGED <<pat, matcher, words, match_distance, overlapping, id_order,
                 anchor_begin, anchor_end, pc, numid_order, i, matches_here, increment,
                 warned, last_call, occur>>

\* lines 540-541: "i += increment" and "if anchor_begin: return"
Advance ==
  /\ pc = "yield"
  /\ pending = <<>>
  /\ i' = i + increment
  /\ pc' = NextPc(anchor_begin)
  /\ UNCHANGED <<pat, matcher, words, match_distance, overlapping, id_order,
                 anchor_begin, anchor_end, numid_order, matches_here, pending,
                 increment, yielded, warned, last_call, occur>>

\* the locals of a generator that is gone
ResetGenerator ==
  /\ pc' = "idle"
  /\ words' = <<>>
  /\ match_distance' = "All"
  /\ overlapping' = TRUE
  /\ id_order' = <<"*">>
  /\ anchor_begin' = FALSE
  /\ anchor_end' = FALSE
  /\ numid_order' = <<>>
  /\ i' = 0
  /\ matches_here' = <<>>
  /\ pending' = <<>>
  /\ increment' = 1
  /\ yielded' = <<>>

\* the consumer drops a generator that has ended (StopIteration or an
\* exception); its locals are gone, the pattern keeps its cached matcher
Discard ==
  /\ pc \in {"done", "error"}
  /\ ResetGenerator
  /\ UNCHANGED <<pat, matcher, warned, last_call, occur>>

\* the consumer drops a generator it has not run to its end
Close ==
  /\ pc \in {"start", "loop", "yield"}
  /\ ResetGenerator
  /\ UNCHANGED <<pat, matcher, warned, last_call, occur>>

\* the consumer drops an ended generator together with the pattern object
\* and its ctxinfo; the same pattern is built again
Drop ==
  /\ pc \in {"done", "error"}
  /\ ResetGenerator
  /\ pat' = Rebuild(pat)
  /\ matcher' = NoMatcher
  /\ warned' = NoWarnings
  /\ last_call' = NoCall
  /\ UNCHANGED occur

\* one pattern object per call
Next ==
  \/ /\ pc = "idle"
     /\ \E ws \in Sentences, md \in MatchDistances, ovl \in BOOLEAN, ids \in IdOrders,
           ab \in BOOLEAN, ae \in BOOLEAN : Call(ws, md, ovl, ids, ab, ae)
  \/ Begin
  \/ LoopExit
  \/ Loop
  \/ Yield
  \/ Advance
  \/ Drop

Spec == Init /\ [][Next]_vars

TypeOK == pc \in {"idle", "start", "loop", "yield", "done", "error"}

\* ------------------------------------------- one pattern object, many calls
MaxReuseLen == 2

ReuseSentences == SeqsUpTo({Word(l) : l \in Lemmas}, MaxReuseLen)

\* freeze() on a node of the pattern
FreezeAt(path) ==
  /\ pc = "idle"
  /\ pat' = ReplaceAt(pat, path, freeze(NodeAt(pat, path)))
  /\ last_call' = [op |-> "freeze", path |-> path, raised |-> None]
  /\ UNCHANGED <<matcher, warned, occur>>
  /\ UNCHANGED genvars

\* "node.ignore = new_ignore" on a Sequence of the pattern
SetIgnore(path, new_ignore) ==
  /\ pc = "idle"
  /\ NodeAt(pat, path).type = "seq"
  /\ pat' = ReplaceAt(pat, path, set_ignore(NodeAt(pat, path), new_ignore).node)
  /\ last_call' = [op |-> "ignore", path |-> path,
                   raised |-> set_ignore(NodeAt(pat, path), new_ignore).raised]
  /\ UNCHANGED <<matcher, warned, occur>>
  /\ UNCHANGED genvars

NextReuse ==
  \/ /\ pc = "idle"
     /\ \E ws \in ReuseSentences, md \in Policies, ids \in IdOrders, ae \in BOOLEAN :
          Call(ws, md, TRUE, ids, FALSE, ae)
  \/ Begin
  \/ LoopExit
  \/ Loop
  \/ Yield
  \/ Advance
  \/ Discard
  \/ Close
  \/ \E path \in Paths(pat) : FreezeAt(path)

SpecReuse == Init /\ [][NextReuse]_vars

\* --------------------------------------------------- building a pattern
MaxSize == 4

\* what the constructors give: a word, an empty Sequence, an empty Either,
\* an Either given its list of children
NewNodes ==
  {WordPattern(None, None),
   SequencePattern(None, None, FALSE, <<>>),
   EitherPattern(<<>>),
   EitherPattern(<<WordPattern(None, None)>>)}

InitAst ==
  /\ pat \in {n \in NewNodes : n.type # "w"}
  /\ matcher = NoMatcher
  /\ InitGenerator
  /\ warned = NoWarnings
  /\ last_call = NoCall
  /\ occur = NoOccur

\* the method op of the node at path returned r
Returned(op, path, r) ==
  /\ pat' = ReplaceAt(pat, path, r.node)
  /\ last_call' = [op |-> op, path |-> path, raised |-> r.raised]
  /\ UNCHANGED <<matcher, warned, occur>>
  /\ UNCHANGED genvars

AddPattern(path, subpattern, index) ==
  /\ NodeAt(pat, path).type # "w"
  /\ index <= Len(NodeAt(pat, path).subpatterns)
  /\ Size(pat) + Size(subpattern) <= MaxSize
  /\ Returned("add_pattern", path, add_pattern(NodeAt(pat, path), subpattern, index))

AppendPattern(path, subpattern) ==
  /\ NodeAt(pat, path).type # "w"
  /\ Size(pat) + Size(subpattern) <= MaxSize
  /\ Returned("append_pattern", path, append_pattern(NodeAt(pat, path), subpattern))

RemovePattern(path, where) ==
  /\ NodeAt(pat, path).type # "w"
  /\ where < Len(NodeAt(pat, path).subpatterns)
  /\ Returned("remove_pattern", path, remove_pattern(NodeAt(pat, path), where))

AddProp(path, name, value, negated) ==
  /\ NodeAt(pat, path).type = "w"
  /\ Size(pat) < MaxSize
  /\ Returned("add_prop", path, add_prop(NodeAt(pat, path), name, value, negated))

NextAst ==
  \/ \E path \in Paths(pat), subpattern \in NewNodes, index \in 0..(MaxSize - 1) :
       AddPattern(path, subpattern, index)
  \/ \E path \in Paths(pat), subpattern \in NewNodes : AppendPattern(path, subpattern)
  \/ \E path \in Paths(pat), where \in {KeyError} \cup 0..(MaxSize - 1) :
       RemovePattern(path, where)
  \/ \E path \in Paths(pat), negated \in BOOLEAN : AddProp(path, "lemma", LiteralProp("a"), negated)
  \/ \E path \in Paths(pat) : FreezeAt(path)
  \/ \E new_ignore \in BOOLEAN : SetIgnore(<<>>, new_ignore)

SpecAst == InitAst /\ [][NextAst]_vars

\* ------------------------------------------------------ the two scenarios
\* seq([lemma="kick"] seq([lemma="the"]){repeat=?} [lemma="bucket"])
PatKickBucket ==
  SequencePattern(None, None, FALSE,
    <<WordPattern(None, "kick"),
      SequencePattern(None, "?", FALSE, <<WordPattern(None, "the")>>),
      WordPattern(None, "bucket")>>)

\* the same with the gap written in the pattern: an optional ignored word
\* seq{repeat=?, ignore}([]) before [lemma="bucket"]
PatKickGapBucket ==
  SequencePattern(None, None, FALSE,
    <<WordPattern(None, "kick"),
      SequencePattern(None, "?", FALSE, <<WordPattern(None, "the")>>),
      SequencePattern(None, "?", TRUE, <<WordPattern(None, None)>>),
      WordPattern(None, "bucket")>>)

\* seq([syndep="dobj:n1"]{id=n1})
PatSelfDep ==
  SequencePattern(None, None, FALSE,
    <<add_prop(WordPattern("n1", None), "syndep", LiteralProp("dobj:n1"), FALSE).node>>)

\* seq([syndep="dobj:n2"] []{id=n2})
PatForeDep ==
  SequencePattern(None, None, FALSE,
    <<add_prop(WordPattern(None, None), "syndep", LiteralProp("dobj:n2"), FALSE).node,
      WordPattern("n2", None)>>)

ScenarioPatterns == {PatKickBucket, PatKickGapBucket, PatSelfDep, PatForeDep}

\* "The old man kicked the proverbial bucket"
KickSentence ==
  <<Word("the"), Word("old"), Word("man"), Word("kick"), Word("the"),
    Word("proverbial"), Word("bucket")>>

MaxDepLen == 2

\* tokens with the dependency fields "", "dobj:1", "dobj:2", "nsubj:1;dobj:2"
DepWords ==
  {WordSyn("a", syn) :
     syn \in {"", "dobj:1", "dobj:2", "nsubj:1;dobj:2"}}

ScenarioSentences ==
  {KickSentence, <<Word("kick"), Word("the"), Word("bucket")>>}
    \cup SeqsUpTo(DepWords, MaxDepLen)

ScenarioIdOrders == {<<"*">>, <<"n1", "n2">>}

InitScenario ==
  /\ pat \in ScenarioPatterns
  /\ matcher = NoMatcher
  /\ InitGenerator
  /\ warned = NoWarnings
  /\ last_call = NoCall
  /\ occur = NoOccur

NextScenario ==
  \/ /\ pc = "idle"
     /\ \E ws \in ScenarioSentences, md \in Policies, ovl \in BOOLEAN,
           ids \in ScenarioIdOrders, ab \in BOOLEAN, ae \in BOOLEAN :
          Call(ws, md, ovl, ids, ab, ae)
  \/ Begin
  \/ LoopExit
  \/ Loop
  \/ Yield
  \/ Advance
  \/ Drop

SpecScenario == InitScenario /\ [][NextScenario]_vars

\* ------------------------------------------- the properties of a word
\* the word after add_prop(name, value, negated)
WithProp(node, name, value, negated) == add_prop(node, name, value, negated).node

\* seq([<attr>="<value>"])
PatLiteral(attr, value) ==
  SequencePattern(None, None, FALSE,
    <<WithProp(WordPattern(None, None), attr, LiteralProp(value), FALSE)>>)

\* seq([lemma="lave" lemma="la"]): two positive properties of one attribute
PatTwoPositive ==
  SequencePattern(None, None, FALSE,
    <<WithProp(WordPattern(None, "lave"), "lemma", LiteralProp("la"), FALSE)>>)

\* seq([lemma!="la"])
PatNegative ==
  SequencePattern(None, None, FALSE,
    <<WithProp(WordPattern(None, None), "lemma", LiteralProp("la"), TRUE)>>)

\* seq([]{id=n1} [lemma=back:n1.lemma])
PatBackrefEarlier ==
  SequencePattern(None, None, FALSE,
    <<WordPattern("n1", None),
      WithProp(WordPattern(None, None), "lemma", BackrefProp("n1", "lemma"), FALSE)>>)

\* seq([lemma=back:n2.lemma] []{id=n2})
PatBackrefLater ==
  SequencePattern(None, None, FALSE,
    <<WithProp(WordPattern(None, None), "lemma", BackrefProp("n2", "lemma"), FALSE),
      WordPattern("n2", None)>>)

\* seq([lemma=back:n1.surface]{id=n1}): a word referring to its own surface
PatBackrefOwn ==
  SequencePattern(None, None, FALSE,
    <<WithProp(WordPattern("n1", None), "lemma", BackrefProp("n1", "surface"), FALSE)>>)

PropPatterns ==
  {PatLiteral("surface", "la"), PatLiteral("lemma", "la"), PatLiteral("pos", "N"),
   PatLiteral("syn", "dobj:1"), PatTwoPositive, PatNegative,
   PatBackrefEarlier, PatBackrefLater, PatBackrefOwn}

MaxPropLen == 2

\* tokens that differ from the first one in one attribute
PropWords ==
  {[surface |-> "la", lemma |-> "la", pos |-> "N", syn |-> ""],
   [surface |-> "lave", lemma |-> "la", pos |-> "N", syn |-> ""],
   [surface |-> "la", lemma |-> "lave", pos |-> "N", syn |-> ""],
   [surface |-> "la", lemma |-> "la", pos |-> "V", syn |-> ""],
   [surface |-> "la", lemma |-> "la", pos |-> "N", syn |-> "dobj:1"]}

PropSentences == SeqsUpTo(PropWords, MaxPropLen)

InitProps ==
  /\ pat \in PropPatterns
  /\ matcher = NoMatcher
  /\ InitGenerator
  /\ warned = NoWarnings
  /\ last_call = NoCall
  /\ occur = NoOccur

NextProps ==
  \/ /\ pc = "idle"
     /\ \E ws \in PropSentences, md \in Policies :
          Call(ws, md, TRUE, <<"*">>, FALSE, FALSE)
  \/ Begin
  \/ LoopExit
  \/ Loop
  \/ Yield
  \/ Advance
  \/ Drop

SpecProps == InitProps /\ [][NextProps]_vars

\* ------------------------------------------------ syntactic dependencies
\* seq([]{id=n1} [syndep="dobj:n1"])
PatBackDep ==
  SequencePattern(None, None, FALSE,
    <<WordPattern("n1", None),
      WithProp(WordPattern(None, None), "syndep", LiteralProp("dobj:n1"), FALSE)>>)

\* seq([syndep="dobj:n3"] [syndep="dobj:n3"] []{id=n3})
PatTwoForeDeps ==
  SequencePattern(None, None, FALSE,
    <<WithProp(WordPattern(None, None), "syndep", LiteralProp("dobj:n3"), FALSE),
      WithProp(WordPattern(None, None), "syndep", LiteralProp("dobj:n3"), FALSE),
      WordPattern("n3", None)>>)

\* seq([]{id=n1} [syndep="nsubj:n1" syndep="dobj:n1"])
PatTwoSyndeps ==
  SequencePattern(None, None, FALSE,
    <<WordPattern("n1", None),
      WithProp(WithProp(WordPattern(None, None), "syndep", LiteralProp("nsubj:n1"), FALSE),
               "syndep", LiteralProp("dobj:n1"), FALSE)>>)

DepPatterns == {PatBackDep, PatForeDep, PatTwoForeDeps, PatTwoSyndeps}

MaxRelLen == 3

RelWords ==
  {WordSyn("a", syn) :
     syn \in {"", "dobj:1", "dobj:2", "dobj:3", "dobj:12", "dobj:21",
              "xdobj:1", "nsubj:1;dobj:2"}}

RelSentences == SeqsUpTo(RelWords, MaxRelLen)

InitDep ==
  /\ pat \in DepPatterns
  /\ matcher = NoMatcher
  /\ InitGenerator
  /\ warned = NoWarnings
  /\ last_call = NoCall
  /\ occur = NoOccur

NextDep ==
  \/ /\ pc = "idle"
     /\ \E ws \in RelSentences : Call(ws, "All", TRUE, <<"*">>, FALSE, FALSE)
  \/ Begin
  \/ LoopExit
  \/ Loop
  \/ Yield
  \/ Advance
  \/ Drop

SpecDep == InitDep /\ [][NextDep]_vars

\* ------------------------------------------------- the repeat values
\* seq{repeat=<repeat>}([lemma="a"])
PatRepeat(repeat) == SequencePattern(None, repeat, FALSE, <<WordPattern(None, "a")>>)

RepeatValues ==
  {"*", "?", "+", "{1,2}", "{2}", "{,2}", "{1,}", "{1,2}x", "{2}x", "x", "{a}"}

InitRepeat ==
  /\ pat \in {PatRepeat(repeat) : repeat \in RepeatValues}
  /\ matcher = NoMatcher
  /\ InitGenerator
  /\ warned = NoWarnings
  /\ last_call = NoCall
  /\ occur = NoOccur

NextRepeat ==
  \/ /\ pc = "idle"
     /\ \E ws \in ReuseSentences, md \in Policies :
          Call(ws, md, TRUE, <<"*">>, FALSE, FALSE)
  \/ Begin
  \/ LoopExit
  \/ Loop
  \/ Yield
  \/ Advance
  \/ Drop

SpecRepeat == InitRepeat /\ [][NextRepeat]_vars

\* ------------------------------------- the ignore flag of a used pattern
InitIgnore ==
  /\ pat \in {PatWord, PatIgnore}
  /\ matcher = NoMatcher
  /\ InitGenerator
  /\ warned = NoWarnings
  /\ last_call = NoCall
  /\ occur = NoOccur

NextIgnore ==
  \/ /\ pc = "idle"
     /\ \E ws \in ReuseSentences : Call(ws, "All", TRUE, <<"*">>, FALSE, FALSE)
  \/ Begin
  \/ LoopExit
  \/ Loop
  \/ Yield
  \/ Advance
  \/ Discard
  \/ \E path \in Paths(pat) : FreezeAt(path)
  \/ \E path \in Paths(pat), new_ignore \in BOOLEAN : SetIgnore(path, new_ignore)

SpecIgnore == InitIgnore /\ [][NextIgnore]_vars

\* ------------------------------------------------------- MWEOccurrence
\* mutant: any increasing step counts as adjacent
is_contiguous_increasing(indexes) ==
  \A k \in 1..(Len(indexes) - 1) : indexes[k] < indexes[k + 1]

\* all(a+1==b for (a,b) in zip(self.indexes, self.indexes[1:]))
is_contiguous(indexes) ==
  \A k \in 1..(Len(indexes) - 1) : indexes[k] + 1 = indexes[k + 1]

is_gappy(indexes) ==
  /\ ~is_contiguous(indexes)
  /\ \A k \in 1..(Len(indexes) - 1) : indexes[k] < indexes[k + 1]

\* MWEOccurrence(sentence, candidate, sentence_indexes) for a sentence of
\* MaxLen + 1 tokens: every index is within the sentence
InitOccur ==
  /\ pat \in {PatWord}
  /\ matcher = NoMatcher
  /\ InitGenerator
  /\ warned = NoWarnings
  /\ last_call = NoCall
  /\ occur \in {[NoOccur EXCEPT !.indexes = ix] : ix \in SeqsUpTo(0..MaxLen, MaxLen)}

CallIsContiguous ==
  /\ "is_contiguous" \notin occur.called
  /\ occur' = [occur EXCEPT !.called = @ \cup {"is_contiguous"},
                            !.contiguous = is_contiguous(occur.indexes)]
  /\ UNCHANGED <<pat, matcher, warned, last_call>>
  /\ UNCHANGED genvars

CallIsGappy ==
  /\ "is_gappy" \notin occur.called
  /\ occur' = [occur EXCEPT !.called = @ \cup {"is_gappy"},
                            !.gappy = is_gappy(occur.indexes)]
  /\ UNCHANGED <<pat, matcher, warned, last_call>>
  /\ UNCHANGED genvars

NextOccur == CallIsContiguous \/ CallIsGappy

SpecOccur == InitOccur /\ [][NextOccur]_vars


\* ---------------------------------------------------------------- claims
YieldedIdx == 1..Len(yielded)

\* offset of the first token of a match, and its first token
StartOffset(res) == res.span[0][1] + seplen
EndOffset(res) == res.span[0][2]
StartToken(res) == BisectLeft(Positions(words), StartOffset(res))

RECURSIVE IgnoreUnderRepeat(_, _)
\* some sequence with the ignore flag lies inside a repeated sequence
IgnoreUnderRepeat(p, underRepeat) ==
  CASE p.type = "w" -> FALSE
    [] p.type = "either" ->
         \E k \in 1..Len(p.subpatterns) : IgnoreUnderRepeat(p.subpatterns[k], underRepeat)
    [] p.type = "seq" ->
         \/ p.ignore /\ underRepeat
         \/ \E k \in 1..Len(p.subpatterns) :
              IgnoreUnderRepeat(p.subpatterns[k], underRepeat \/ Truthy(p.repeat))

\* C1: the scan cursor strictly advances on every iteration of the scan
\* loop (so the lazy sequence returned by matches() is finite), for every
\* pattern, sentence, policy, flags and requested ids.
C1_CursorAdvances == [][(pc = "yield" /\ pending = <<>>) => i' > i]_vars

\* C2: under policy Longest the match yielded for a cursor position is the
\* longest one: no way of matching the pattern from the same token ends
\* further right.
C2_LongestIsLongest ==
  match_distance = "Longest" =>
    \A k \in YieldedIdx :
      \A e \in MatchEnds(matcher, words, StartToken(yielded[k])) : e <= EndOffset(yielded[k])

\* C3: under policy All with overlapping and no anchors, a finished scan has
\* yielded every occurrence: for every start token and every span the
\* pattern can match from it, a MatchResult with that span.
C3_AllFindsEveryOccurrence ==
  (pc = "done" /\ match_distance = "All" /\ overlapping /\ ~anchor_begin /\ ~anchor_end) =>
    \A t \in 0..(Len(words) - 1) :
      \A e \in MatchEnds(matcher, words, t) :
        \E k \in YieldedIdx :
          StartToken(yielded[k]) = t /\ EndOffset(yielded[k]) = e

\* C4: the spans yielded by matches(S, "Longest", overlapping=true) are
\* among the spans yielded by matches(S, "All", overlapping=true) for the
\* same pattern, sentence, requested ids and anchor flags.
C4_AllSupersetOfLongest ==
  (match_distance = "Longest" /\ overlapping) =>
    LET all == Scan(matcher, words, "All", TRUE, numid_order, anchor_begin, anchor_end, 0)
    IN  \A k \in YieldedIdx : \E j \in 1..Len(all) : all[j].span[0] = yielded[k].span[0]

C4_Witness ==
  /\ match_distance = "Longest" /\ overlapping
  /\ Len(yielded) >= 2
  /\ Len(matches_here) >= 2

\* C5: with overlapping=false and policy Longest or Shortest the spans of
\* any two yielded matches are disjoint: a later match starts at or after
\* the token boundary where the earlier one ended.
C5_NonOverlappingDisjoint ==
  (~overlapping /\ match_distance \in {"Longest", "Shortest"}) =>
    \A j \in YieldedIdx : \A k \in YieldedIdx :
      j < k => StartOffset(yielded[k]) >= EndOffset(yielded[j])

\* C6 (as stated): every token index of a MatchResult is within
\* [0, len(S)) and the indices of one MatchResult are pairwise distinct,
\* for any requested id list.
C6_IndicesDistinct ==
  \A k \in YieldedIdx :
    LET w == yielded[k].wordnums
    IN  /\ \A a \in 1..Len(w) : 0 <= w[a] /\ w[a] < Len(words)
        /\ \A a \in 1..Len(w) : \A b \in 1..Len(w) : a # b => w[a] # w[b]

\* C6 (amended): every token index of a MatchResult is within [0, len(S));
\* the indices extracted for one requested id are strictly increasing, so
\* the indices of a MatchResult for a single requested id are pairwise
\* distinct; the list is the concatenation of the per-id lists.
C6_IndicesDistinctPerId ==
  \A k \in YieldedIdx :
    LET w == yielded[k].wordnums
    IN  /\ \A a \in 1..Len(w) : 0 <= w[a] /\ w[a] < Len(words)
        /\ \A j \in 1..Len(yielded[k].parts) :
             LET part == yielded[k].parts[j]
             IN  \A a \in 1..Len(part) : \A b \in 1..Len(part) : a < b => part[a] < part[b]
        /\ Len(numid_order) = 1 =>
             \A a \in 1..Len(w) : \A b \in 1..Len(w) : a # b => w[a] # w[b]

C6_Witness ==
  \E k \in YieldedIdx : Len(numid_order) = 1 /\ Len(yielded[k].wordnums) >= 2

\* C7: for every requested id whose slot has ignored descendant slots, no
\* token index returned for that id has its offset inside the matched span
\* of one of those ignored descendants.
C7_IgnoreInvariant ==
  \A k \in YieldedIdx : \A j \in 1..Len(numid_order) :
    LET sub  == DefaultDictGet(matcher.ignored_sub_numids, numid_order[j])
        part == yielded[k].parts[j]
    IN  \A g \in 1..Len(sub) : \A a \in 1..Len(part) :
          LET pos == Positions(words)[part[a] + 1]
              rng == yielded[k].span[sub[g]]
          IN  ~(rng[1] <= pos /\ pos < rng[2])

C7_Witness ==
  \E k \in YieldedIdx : \E j \in 1..Len(numid_order) :
    /\ yielded[k].parts[j] # <<>>
    /\ \E g \in 1..Len(DefaultDictGet(matcher.ignored_sub_numids, numid_order[j])) :
         LET rng == yielded[k].span[DefaultDictGet(matcher.ignored_sub_numids, numid_order[j])[g]]
         IN  rng[1] >= 0 /\ rng[1] < rng[2]

\* C8 (as stated): no token consumed by a Sequence whose ignore flag is set
\* is in the index list returned for any requested id.
C8_IgnoredTokensAbsent ==
  \A k \in YieldedIdx :
    \A a \in 1..Len(yielded[k].wordnums) : yielded[k].wordnums[a] \notin yielded[k].ignored

\* the slots whose own sequence is neither ignored nor inside an ignored one
OutsideIgnore(numid) ==
  /\ numid = 0 \/ numid \in DOMAIN matcher.numid2parent
  /\ AncestorChain(matcher.numid2parent, numid) \cap matcher.ignored_numids = {}

\* C8 (amended): in a pattern with no ignored Sequence inside a repeated
\* Sequence, no token consumed by an ignored Sequence is in the index list
\* returned for the whole-match id or for a requested sequence id that is
\* not itself ignored nor inside an ignored Sequence; the token is still
\* consumed (it lies in the matched span).
C8_IgnoredTokensAbsentOutside ==
  ~IgnoreUnderRepeat(pat, FALSE) =>
    \A k \in YieldedIdx :
      /\ \A j \in 1..Len(numid_order) :
           OutsideIgnore(numid_order[j]) =>
             \A a \in 1..Len(yielded[k].parts[j]) :
               yielded[k].parts[j][a] \notin yielded[k].ignored
      /\ \A t \in yielded[k].ignored :
           /\ StartOffset(yielded[k]) <= Positions(words)[t + 1]
           /\ Positions(words)[t + 1] < EndOffset(yielded[k])

C8_Witness ==
  /\ ~IgnoreUnderRepeat(pat, FALSE)
  /\ \E k \in YieldedIdx : \E j \in 1..Len(numid_order) :
       /\ OutsideIgnore(numid_order[j])
       /\ yielded[k].parts[j] # <<>>
       /\ yielded[k].ignored # {}

\* C9: a call with a policy outside {All, Longest, Shortest}, or with All
\* and overlapping=false, ends in an error and yields nothing, for every
\* sentence.
C9_InvalidConfigFatal ==
  Raises(match_distance, overlapping) => (pc # "done" /\ yielded = <<>>)

\* C10: with anchor_begin=true only cursor position 0 is tried and every
\* yielded match starts at token 0, under every policy.
C10_AnchorBeginFirstPositionOnly ==
  anchor_begin =>
    /\ pc \in {"loop", "yield"} => i = 0
    /\ \A k \in YieldedIdx : StartToken(yielded[k]) = 0
    /\ \A k \in 1..Len(matches_here) : StartToken(matches_here[k]) = 0

C10_Witness ==
  /\ anchor_begin /\ pc = "done"
  /\ Len(yielded) >= 1
  /\ \E t \in 1..(Len(words) - 1) : MatchEnds(matcher, words, t) # {}

\* C11: with anchor_end=true at most one match is collected and yielded per
\* cursor position, under every policy, and every yielded match ends at the
\* end of the sentence (its last consumed token is the last token).
C11_AnchorEndOneAtSentenceEnd ==
  anchor_end =>
    /\ Len(matches_here) <= 1
    /\ \A k \in YieldedIdx : EndOffset(yielded[k]) = WordstringLen(words)

AllFrozen(node) == \A path \in Paths(node) : NodeAt(node, path)._frozen

Mutators == {"add_pattern", "append_pattern", "remove_pattern", "add_prop"}

RECURSIVE Skeleton(_)
\* the child lists and the property maps of a tree: the tree without the
\* ignore flags of its Sequences
Skeleton(node) ==
  CASE node.type = "w" -> node
    [] node.type = "seq" ->
         [node EXCEPT !.ignore = FALSE,
                      !.subpatterns = [k \in 1..Len(node.subpatterns) |->
                                         Skeleton(node.subpatterns[k])]]
    [] node.type = "either" ->
         [node EXCEPT !.subpatterns = [k \in 1..Len(node.subpatterns) |->
                                         Skeleton(node.subpatterns[k])]]

\* C12: a frozen node has only frozen descendants in every state; after
\* freeze() on a node the node and all its descendants are frozen; a call
\* of freeze, add_pattern, append_pattern, remove_pattern or add_prop on a
\* frozen node (so on any descendant of a frozen node) leaves the whole
\* tree as it was, and the four mutators raise; the child lists and the
\* property maps of a frozen root never change.
C12_FrozenImmutable ==
  /\ [](\A path \in Paths(pat) :
          NodeAt(pat, path)._frozen => AllFrozen(NodeAt(pat, path)))
  /\ [](last_call.op = "freeze" => AllFrozen(NodeAt(pat, last_call.path)))
  /\ [][pat._frozen => Skeleton(pat') = Skeleton(pat)]_vars
  /\ [][(last_call'.op \in Mutators \cup {"freeze"} /\ last_call'.path \in Paths(pat)
           /\ NodeAt(pat, last_call'.path)._frozen)
          => (pat' = pat /\ (last_call'.op \in Mutators => last_call'.raised # None))]_vars

C12_Witness ==
  /\ pat._frozen
  /\ last_call.op = "add_prop" /\ last_call.raised = "AssertionError"
  /\ Len(last_call.path) >= 1

\* C13: the matcher is built by a matches() call only, from the pattern
\* frozen as a whole; once built, every later call keeps that very
\* matcher, with whatever its earlier calls left in it, and nothing ever
\* replaces its automaton and tables; freeze() alone builds no matcher.
C13_MatcherBuiltOnce ==
  /\ [](matcher # NoMatcher => AllFrozen(pat))
  /\ []((pc # "idle" /\ ~CompileFails(pat)) => matcher # NoMatcher)
  /\ [][(matcher = NoMatcher /\ matcher' # NoMatcher)
          => (pc = "idle" /\ pc' = "start" /\ AllFrozen(pat')
              /\ matcher' = PatternMatcher(pat'))]_vars
  /\ [][(matcher # NoMatcher /\ pc = "idle") => matcher' = matcher]_vars
  /\ [][matcher # NoMatcher
          => /\ matcher' # NoMatcher
             /\ matcher'.compiled_pattern = matcher.compiled_pattern
             /\ matcher'.groupindex = matcher.groupindex]_vars

C13_Witness ==
  /\ pc = "start"
  /\ matcher # NoMatcher
  /\ matcher # PatternMatcher(pat)

\* C14: once built, the matcher never changes: no step of a matches() call
\* changes any of its fields.
C14_MatcherImmutable == [][matcher # NoMatcher => matcher' = matcher]_vars

RECURSIVE DeclaredIds(_)
\* the ids declared in a pattern, in document order
DeclaredIds(node) ==
  CASE node.type = "w" -> IF Truthy(node.w_strid) THEN <<node.w_strid>> ELSE <<>>
    [] node.type = "seq" ->
         (IF Truthy(node.seq_strid) THEN <<node.seq_strid>> ELSE <<>>)
           \o Concat([k \in 1..Len(node.subpatterns) |-> DeclaredIds(node.subpatterns[k])])
    [] node.type = "either" ->
         Concat([k \in 1..Len(node.subpatterns) |-> DeclaredIds(node.subpatterns[k])])

HasDuplicateId(node) ==
  \E j \in 1..Len(DeclaredIds(node)) : \E k \in 1..Len(DeclaredIds(node)) :
    j < k /\ DeclaredIds(node)[j] = DeclaredIds(node)[k]

\* C15: a pattern that declares one id on two nodes (two words, two
\* sequences, a word and a sequence, in any place of the tree) never gets a
\* matcher: every matches() call on it raises and no generator runs.
C15_DuplicateIdFatal ==
  HasDuplicateId(pat) =>
    /\ matcher = NoMatcher
    /\ pc \in {"idle", "error"}
    /\ last_call.op = "matches" => last_call.raised # None

C15_Witness ==
  /\ Rebuild(pat) = PatDupWordSeq
  /\ pc = "error"
  /\ last_call.raised # None

SelfDependent(ws, t) ==
  LET text == ";" \o ws[t + 1].syn \o ";"
  IN  \E k \in 1..Len(text) : OccursAt(text, ";dobj:" \o ToString(t + 1) \o ";", k)

\* C17 (as stated): the pattern whose word n1 has syndep "dobj:n1" compiles
\* and yields no match, whatever the dependency fields of the tokens.
C17_SelfReferenceNeverMatches ==
  Rebuild(pat) = PatSelfDep =>
    /\ pc # "idle" => matcher # NoMatcher
    /\ yielded = <<>>

\* C17 (amended): the pattern compiles; every match it yields is one token
\* whose dependency field holds a dobj relation to the token's own
\* position, so a sentence without such a token yields no match.
C17_SelfReferenceMatchesSelfDependentOnly ==
  Rebuild(pat) = PatSelfDep =>
    /\ pc # "idle" => (matcher # NoMatcher /\ last_call.raised = None)
    /\ \A k \in YieldedIdx :
         /\ SelfDependent(words, StartToken(yielded[k]))
         /\ BisectLeft(Positions(words), EndOffset(yielded[k])) = StartToken(yielded[k]) + 1
    /\ (\A t \in 0..(Len(words) - 1) : ~SelfDependent(words, t))
         => (yielded = <<>> /\ matches_here = <<>>)

C17_Witness ==
  /\ Rebuild(pat) = PatSelfDep
  /\ pc = "done" /\ match_distance = "All" /\ overlapping
  /\ yielded = <<>>
  /\ \E t \in 1..Len(words) : words[t].syn # ""
  /\ \A t \in 0..(Len(words) - 1) : ~SelfDependent(words, t)

\* the requested ids the pattern defines
KnownIds(m, strid_order) ==
  SelectSeq(strid_order, LAMBDA strid : Strid2numid(m.groupindex, "id_" \o strid) # KeyError)

\* C18: a requested id the pattern does not define does not abort the call
\* (the first resumption goes on to the scan), adds no token to any
\* MatchResult (the index list is that of the defined ids, in order), and
\* gets exactly one warning, whatever the number of calls: never more than
\* one, and one as soon as the body of a call requesting it has run; a
\* defined id gets none.
C18_UnknownIdWarnedOnce ==
  /\ [](\A strid \in Strids : warned[strid] <= 1)
  /\ [](matcher # NoMatcher =>
          \A strid \in Strids :
            warned[strid] = 1 => Strid2numid(matcher.groupindex, "id_" \o strid) = KeyError)
  /\ [](pc \in {"loop", "yield", "done"} =>
          \A strid \in UnknownIds(matcher, id_order) : warned[strid] = 1)
  /\ [][pc = "start" => pc' \in {"start", "loop", "idle"}]_vars
  /\ [](\A k \in YieldedIdx :
          LET known == KnownIds(matcher, id_order)
          IN  yielded[k].wordnums =
                Concat([j \in 1..Len(known) |->
                          WordnumsOf(matcher, Positions(words), yielded[k].span,
                                     Strid2numid(matcher.groupindex, "id_" \o known[j]))]))

C18_Witness ==
  /\ pc = "yield"
  /\ \E k \in YieldedIdx : yielded[k].wordnums # <<>>
  /\ UnknownIds(matcher, id_order) # {}
  /\ \E strid \in Strids :
       warned[strid] = 1 /\ strid \notin UnknownIds(matcher, id_order)

C20_EitherChildrenAreSequences ==
  \A path \in Paths(pat) :
    NodeAt(pat, path).type = "either" =>
      \A k \in 1..Len(NodeAt(pat, path).subpatterns) :
        NodeAt(pat, path).subpatterns[k].type = "seq"

\* the tokens (0-based) at which the yielded matches start
MatchedAt == {StartToken(yielded[k]) : k \in YieldedIdx}

\* C21: a pattern with a Backref property on lemma compiles whether the
\* word referred to is declared before or after the word holding the
\* property, and a finished scan has yielded a match at exactly the
\* positions where the two tokens have the same lemma.
C21_BackrefEitherDirection ==
  Rebuild(pat) \in {PatBackrefEarlier, PatBackrefLater} =>
    /\ pc # "idle" => (matcher # NoMatcher /\ last_call.raised = None)
    /\ pc = "done" =>
         MatchedAt = {t \in 0..(Len(words) - 2) : words[t + 1].lemma = words[t + 2].lemma}

\* C22: a finished scan of the pattern of one word with one positive
\* Literal v on an attribute has yielded a match at exactly the tokens
\* whose attribute is the text v, for each of the four attributes.
C22_LiteralMatchesExactValue ==
  \A attr \in {"surface", "lemma", "pos", "syn"} : \A v \in {"la", "N", "dobj:1"} :
    (Rebuild(pat) = PatLiteral(attr, v) /\ pc = "done") =>
      MatchedAt = {t \in 0..(Len(words) - 1) : words[t + 1][attr] = v}

\* the pairs "rel:target" of a dependency field: the texts between its ";"
Pairs(syn) ==
  LET n == Len(syn)
  IN  {SubSeq(syn, ab[1], ab[2]) :
         ab \in {cd \in (1..(n + 1)) \X (0..n) :
                   /\ cd[1] <= cd[2] + 1
                   /\ cd[1] = 1 \/ SubSeq(syn, cd[1] - 1, cd[1] - 1) = ";"
                   /\ cd[2] = n \/ SubSeq(syn, cd[2] + 1, cd[2] + 1) = ";"
                   /\ \A j \in cd[1]..cd[2] : SubSeq(syn, j, j) # ";"}}

\* the positions t where the token after token t has the pair rel:<number
\* of token t>
DependsOnPrevious(rel) ==
  {t \in 0..(Len(words) - 2) : (rel \o ":" \o ToString(t + 1)) \in Pairs(words[t + 2].syn)}

\* C23: the pattern seq([]{id=n1} [syndep="dobj:n1"]) yields only matches
\* of two tokens whose second token has the pair dobj:k, k the 1-based
\* position of the first, and a finished scan has yielded one at every
\* such position: a pair dobj:12, dobj:21 or xdobj:1 does not count for
\* k = 1.
C23_BackDependencyExactTarget ==
  Rebuild(pat) = PatBackDep =>
    /\ \A k \in YieldedIdx :
         /\ StartToken(yielded[k]) \in DependsOnPrevious("dobj")
         /\ BisectLeft(Positions(words), EndOffset(yielded[k])) = StartToken(yielded[k]) + 2
    /\ pc = "done" => MatchedAt = DependsOnPrevious("dobj")

C23_Witness ==
  /\ Rebuild(pat) = PatBackDep /\ pc = "done"
  /\ MatchedAt # {}
  /\ \E t \in 0..(Len(words) - 2) :
       words[t + 2].syn \in {"dobj:12", "dobj:21", "xdobj:1"} /\ t \notin MatchedAt

\* C24: in every yielded match, each word with a fore-reference "dobj:x"
\* has matched a token with the pair dobj:k, k the 1-based position of the
\* token matched by the word x: the first word of
\* seq([syndep="dobj:n2"] []{id=n2}), the first and the second word of
\* seq([syndep="dobj:n3"] [syndep="dobj:n3"] []{id=n3}).
C24_ForeReferencesUnified ==
  /\ Rebuild(pat) = PatForeDep =>
       \A k \in YieldedIdx :
         LET t == StartToken(yielded[k])
         IN  ("dobj:" \o ToString(t + 2)) \in Pairs(words[t + 1].syn)
  /\ Rebuild(pat) = PatTwoForeDeps =>
       \A k \in YieldedIdx :
         LET t == StartToken(yielded[k])
         IN  /\ ("dobj:" \o ToString(t + 3)) \in Pairs(words[t + 1].syn)
             /\ ("dobj:" \o ToString(t + 3)) \in Pairs(words[t + 2].syn)

\* a word pattern with Literal properties accepts a token: every positive
\* value is the whole attribute, no negative value is
WordAccepts(w_patobj, word) ==
  /\ \A k \in 1..Len(w_patobj.positive_props) :
       word[w_patobj.positive_props[k].name] = w_patobj.positive_props[k].value.value
  /\ \A k \in 1..Len(w_patobj.negative_props) :
       word[w_patobj.negative_props[k].name] # w_patobj.negative_props[k].value.value

\* C25: a finished scan of a pattern of one word with Literal properties
\* on surface, lemma or pos has yielded a match at exactly the tokens
\* whose attributes are the whole value of every positive property and of
\* no negative property.
C25_EveryPropertyWholeValue ==
  (/\ Rebuild(pat) \in {PatLiteral("surface", "la"), PatLiteral("lemma", "la"),
                        PatLiteral("pos", "N"), PatTwoPositive, PatNegative}
   /\ pc = "done") =>
    MatchedAt = {t \in 0..(Len(words) - 1) :
                   WordAccepts(Rebuild(pat).subpatterns[1], words[t + 1])}

\* C26: the matcher compiled from a pattern with an ignored Sequence
\* inside a repeated Sequence holds the warning about id or ignore under a
\* repeat scope.
C26_IdOrIgnoreUnderRepeatWarned ==
  (matcher # NoMatcher /\ IgnoreUnderRepeat(pat, FALSE)) =>
    InSeq("Elem cannot have id or ignore under a repeat scope", matcher.warnings)

\* repeat is exactly {m,n}, {m,}, {,n} or {n}
IsBraceRange(repeat) ==
  /\ Len(repeat) >= 3
  /\ SubSeq(repeat, 1, 1) = "{" /\ SubSeq(repeat, Len(repeat), Len(repeat)) = "}"
  /\ \/ IsDigits(SubSeq(repeat, 2, Len(repeat) - 1))
     \/ /\ Len(repeat) >= 4
        /\ \E c \in 2..(Len(repeat) - 1) :
             /\ SubSeq(repeat, c, c) = ","
             /\ IsDigits(SubSeq(repeat, 2, c - 1))
             /\ IsDigits(SubSeq(repeat, c + 1, Len(repeat) - 1))

\* C27: the matcher compiled from seq{repeat=r}(...) holds the warning
\* "Invalid repeat pattern" iff r is not exactly *, +, ? or a brace range.
C27_InvalidRepeatWarned ==
  (matcher # NoMatcher /\ Truthy(pat.repeat)) =>
    (InSeq("Invalid repeat pattern", matcher.warnings)
       <=> ~(pat.repeat \in {"*", "+", "?"} \/ IsBraceRange(pat.repeat)))

\* C28: the pattern seq([]{id=n1} [syndep="nsubj:n1" syndep="dobj:n1"])
\* matches as its first syndep property says, and its matcher holds a
\* warning for the second one.
C28_FirstSyndepOnlyWithWarning ==
  Rebuild(pat) = PatTwoSyndeps =>
    /\ pc = "done" => MatchedAt = DependsOnPrevious("nsubj")
    /\ matcher # NoMatcher => matcher.warnings # <<>>

\* the offsets at which a token of the sentence ends
TokenBoundaries ==
  {Positions(words)[j] : j \in 2..Len(words)} \cup {WordstringLen(words)}

\* C29: the matches found at one cursor position end at strictly
\* decreasing offsets, each at or before a token boundary of the sentence
\* (the cursor position itself for the match of no token), and they are at
\* most the number of remaining tokens plus one.
C29_RetryStrictlyShorter ==
  /\ \A k \in 1..(Len(matches_here) - 1) :
       EndOffset(matches_here[k + 1]) < EndOffset(matches_here[k])
  /\ pc = "yield" =>
       /\ \A k \in 1..Len(matches_here) :
            EndOffset(matches_here[k]) \in TokenBoundaries \cup {Positions(words)[i + 1]}
       /\ Len(matches_here) <= Len(words) - i + 1

C29_Witness ==
  /\ pc = "yield" /\ ~anchor_end
  /\ Len(matches_here) >= 2
  /\ i > 0

\* C30: the ignore flag of a frozen Sequence never changes, and the
\* cached matcher is the one the pattern, as it is now, compiles to.
C30_IgnoreFrozen ==
  /\ [][\A path \in Paths(pat) :
          (NodeAt(pat, path).type = "seq" /\ NodeAt(pat, path)._frozen)
            => NodeAt(pat', path).ignore = NodeAt(pat, path).ignore]_vars
  /\ [](matcher # NoMatcher =>
          matcher.compiled_pattern = PatternMatcher(pat).compiled_pattern)

====
